---- MODULE Spec2Model ----
(***************************************************************************)
(* Model of snapd's mountinfo parser (cmd/libsnap-confine-private/         *)
(* mountinfo.c) and of the dm-verity root hash extraction                  *)
(* (snap/integrity/dmverity/veritysetup.go).                               *)
(*                                                                         *)
(* A C string is a sequence of one-character strings; the terminating NUL  *)
(* is implicit in an input line and explicit (the value NUL) in an entry's *)
(* line_buf.  Offsets and pointers into line_buf are 0-based, as in the C  *)
(* code; NULL is the pointer value Null.                                   *)
(***************************************************************************)
EXTENDS Integers, Sequences, FiniteSets, TLC

VARIABLES
    \* ---- sc_parse_mountinfo_entry applied to one line
    shape,      \* how the input line was built (tokens and one edit)
    line,       \* the input line handed to sc_parse_mountinfo_entry
    res,        \* what sc_parse_mountinfo_entry returned and wrote
    epc,        \* "input" before the call, "parsed" after it
    \* ---- sc_parse_mountinfo on a source, then its caller
    source,     \* the lines getline delivers, in order
    readErr,    \* whether getline then fails with errno set (else end of file)
    pc,         \* "start", "loop" (inside for (;;)), "returned"
    pos,        \* number of lines read so far
    allocated,  \* records calloc returned: 0 is the table, i the i-th line's entry
    frees,      \* how many times each record was passed to free
    first,      \* info->first
    next,       \* entry->next of each entry
    last,       \* the local variable last
    entries,    \* the contents of each entry record
    file,       \* the FILE *f: "null", "open" or "closed"
    ret,        \* the value returned: Null or the table (record 0)
    ref,        \* the caller's sc_mountinfo * variable
    cur,        \* the caller's iteration pointer
    visited,    \* the entries the caller's walk has visited, in order
    walk,       \* "idle", "walking" or "done"
    cleanups,   \* number of sc_cleanup_mountinfo(&ref) calls made
    \* ---- dmverity.Format and getRootHashFromOutput
    outShape,   \* how the command's output was built, line by line
    output,     \* the bytes veritysetup printed
    hpc,        \* "start", "scan" (inside for scanner.Scan()), "done"
    rest,       \* the bytes the scanner has not consumed yet
    rootHash,   \* the named result rootHash
    result      \* what Format returns: an Info, an error or a panic

evars == <<shape, line, res, epc>>
tvars == <<source, readErr, pc, pos, allocated, frees, first, next, last,
           entries, file, ret, ref, cur, visited, walk, cleanups>>
hvars == <<outShape, output, hpc, rest, rootHash, result>>
vars == <<evars, tvars, hvars>>

NUL == "NUL"
Null == -1

(***************************************************************************)
(* Characters and C library scanning (sscanf), as glibc performs it.       *)
(***************************************************************************)

\* isspace() over the characters of the model.
IsSpace(c) == c \in {" ", "\t", "\n"}

IsDigit(c) == c \in {"0", "1", "2", "3", "4", "5", "6", "7", "8", "9"}

DigitVal(c) ==
    CASE c = "0" -> 0 [] c = "1" -> 1 [] c = "2" -> 2 [] c = "3" -> 3
      [] c = "4" -> 4 [] c = "5" -> 5 [] c = "6" -> 6 [] c = "7" -> 7
      [] c = "8" -> 8 [] c = "9" -> 9

\* line[i] of the C string: the characters, then the terminating NUL.
LineAt(l, i) ==
    IF i >= 0 /\ i < Len(l) THEN l[i + 1]
    ELSE IF i = Len(l) THEN NUL ELSE "OUT_OF_BOUNDS"

\* A whitespace directive, and the whitespace %d, %u and %s skip first.
RECURSIVE SkipWs(_, _)
SkipWs(l, i) == IF IsSpace(LineAt(l, i)) THEN SkipWs(l, i + 1) ELSE i

\* The end of the run of non-whitespace characters %s stores.
RECURSIVE TokEnd(_, _)
TokEnd(l, i) ==
    IF IsSpace(LineAt(l, i)) \/ LineAt(l, i) = NUL THEN i ELSE TokEnd(l, i + 1)

RECURSIVE DigitsEnd(_, _)
DigitsEnd(l, i) == IF IsDigit(LineAt(l, i)) THEN DigitsEnd(l, i + 1) ELSE i

RECURSIVE DigitsValue(_, _, _, _)
DigitsValue(l, i, e, acc) ==
    IF i >= e THEN acc
    ELSE DigitsValue(l, i + 1, e, acc * 10 + DigitVal(LineAt(l, i)))

\* One %d or %u conversion at offset i: leading whitespace, an optional
\* sign, at least one digit.  status is 1 (converted), 0 (matching failure)
\* or -1 (input ended before the conversion).  The value is the 32-bit
\* pattern stored, read as a signed int: for %u a negated number v is
\* stored as 2^32 - v, which has the bits of the int -v.
ScanInt(l, i) ==
    LET s  == SkipWs(l, i)
        hasSign == LineAt(l, s) \in {"+", "-"}
        neg == LineAt(l, s) = "-"
        d  == IF hasSign THEN s + 1 ELSE s
        e  == DigitsEnd(l, d)
        v  == DigitsValue(l, d, e, 0)
    IN  IF LineAt(l, s) = NUL THEN [status |-> -1, val |-> 0, end |-> s]
        ELSE IF e = d THEN [status |-> 0, val |-> 0, end |-> d]
        ELSE [status |-> 1, val |-> IF neg THEN 0 - v ELSE v, end |-> e]

\* sscanf(line + off, "%s%n", field, &offset_delta).
ScanS(l, off) ==
    LET s == SkipWs(l, off)
        e == TokEnd(l, s)
    IN  IF LineAt(l, s) = NUL
        THEN [n |-> -1, tok |-> <<>>, delta |-> 0]
        ELSE [n |-> 1, tok |-> SubSeq(l, s + 1, e), delta |-> e - off]

\* sscanf(line, "%d %d %u:%u %n", ...): the number of conversions made, the
\* four values, and offset_delta (set only when %n is reached).
ScanHeader(l) ==
    LET a == ScanInt(l, 0)
        b == ScanInt(l, SkipWs(l, a.end))
        c == ScanInt(l, SkipWs(l, b.end))
        d == ScanInt(l, c.end + 1)
        none == [mount_id |-> 0, parent_id |-> 0, dev_major |-> 0,
                 dev_minor |-> 0, delta |-> 0]
    IN  IF a.status # 1 THEN [n |-> a.status] @@ none
        ELSE IF b.status # 1
        THEN [none EXCEPT !.mount_id = a.val] @@ [n |-> 1]
        ELSE IF c.status # 1
        THEN [none EXCEPT !.mount_id = a.val, !.parent_id = b.val] @@ [n |-> 2]
        ELSE IF LineAt(l, c.end) # ":" \/ d.status # 1
        THEN [none EXCEPT !.mount_id = a.val, !.parent_id = b.val,
                          !.dev_major = c.val] @@ [n |-> 3]
        ELSE [n |-> 4, mount_id |-> a.val, parent_id |-> b.val,
              dev_major |-> c.val, dev_minor |-> d.val,
              delta |-> SkipWs(l, d.end)]

(***************************************************************************)
(* The entry record and its line buffer.                                   *)
(***************************************************************************)

\* calloc(1, sizeof *entry + strlen(line) + 1): a zeroed entry whose
\* line_buf holds strlen(line) + 1 bytes.  writes collects every index of
\* line_buf the parser stores to; offset and field are the parser's locals
\* and failed whether it has taken goto fail.
NewEntry(l) ==
    [mount_id |-> 0, parent_id |-> 0, dev_major |-> 0, dev_minor |-> 0,
     root |-> Null, mount_dir |-> Null, mount_opts |-> Null,
     optional_fields |-> Null, fs_type |-> Null, mount_source |-> Null,
     super_opts |-> Null,
     line_buf |-> [i \in 1 .. Len(l) + 1 |-> NUL],
     writes |-> {}, offset |-> 0, field |-> Null, failed |-> FALSE]

\* line_buf[p] = c.  A store outside the allocation is recorded in writes
\* (it is undefined behaviour) and leaves the buffer as it was.
Store(e, p, c) ==
    [e EXCEPT !.writes = @ \cup {p},
              !.line_buf = IF p >= 0 /\ p < Len(@)
                           THEN [@ EXCEPT ![p + 1] = c] ELSE @]

RECURSIVE StoreStr(_, _, _)
StoreStr(e, p, cs) ==
    IF cs = <<>> THEN e ELSE StoreStr(Store(e, p, Head(cs)), p + 1, Tail(cs))

\* The C string at line_buf + p.
RECURSIVE CStr(_, _)
CStr(buf, p) ==
    IF p < 0 \/ p >= Len(buf) \/ buf[p + 1] = NUL THEN <<>>
    ELSE <<buf[p + 1]>> \o CStr(buf, p + 1)

\* parse_next_string_field without the step over the space that follows a
\* scanned field.
parse_next_string_field_nostep(e, l) ==
    LET field == e.offset
    IN  IF LineAt(l, e.offset) = " "
        THEN [Store(e, field, NUL) EXCEPT !.offset = e.offset + 1,
                                          !.field = field]
        ELSE LET r == ScanS(l, e.offset)
             IN  IF r.n # 1 THEN [e EXCEPT !.field = Null]
                 ELSE [StoreStr(e, field, r.tok \o <<NUL>>) EXCEPT
                         !.offset = e.offset + r.delta,
                         !.field = field]

\* parse_next_string_field: the entry after the call; field is the pointer
\* returned (Null on failure) and offset the updated *offset.
parse_next_string_field(e, l) ==
    LET field == e.offset
    IN  IF LineAt(l, e.offset) = " "
        THEN [Store(e, field, NUL) EXCEPT !.offset = e.offset + 1,
                                          !.field = field]
        ELSE LET r == ScanS(l, e.offset)
                 off == e.offset + r.delta
             IN  IF r.n # 1 THEN [e EXCEPT !.field = Null]
                 ELSE [StoreStr(e, field, r.tok \o <<NUL>>) EXCEPT
                         !.offset = IF LineAt(l, off) = " " THEN off + 1
                                    ELSE off,
                         !.field = field]

\* strncmp(opt_field, "-", 1) == 0: a comparison of the first byte alone.
IsSeparator_prefix(e) ==
    e.line_buf[e.field + 1] = "-"

\* strcmp(opt_field, "-") == 0
IsSeparator(e) == CStr(e.line_buf, e.field) = <<"-">>

\* The loop over the optional fields, from iteration field_num on.  Ends
\* with field = Null on failure, and on the separator otherwise.
RECURSIVE parse_optional_fields(_, _, _)

\* The loop body without opt_field[-1] = ' '.
OptionalField_nojoin(s, l, field_num) ==
    IF s.field = Null THEN s
    ELSE IF IsSeparator(s) THEN Store(s, s.field, NUL)
    ELSE parse_optional_fields(s, l, field_num + 1)

\* The loop body after opt_field = parse_next_string_field(...) left s.
OptionalField(s, l, field_num) ==
    IF s.field = Null THEN s
    ELSE IF IsSeparator(s) THEN Store(s, s.field, NUL)
    ELSE IF field_num > 0
    THEN parse_optional_fields(Store(s, s.field - 1, " "), l, field_num + 1)
    ELSE parse_optional_fields(s, l, field_num + 1)

parse_optional_fields(e, l, field_num) ==
    OptionalField(parse_next_string_field(e, l), l, field_num)

\* What a call of sc_parse_mountinfo_entry leaves behind: ok (an entry is
\* returned, NULL otherwise), allocated (calloc gave a record), freed (the
\* record was passed to free), entry (the record's contents).
\* The fail label: free(entry); return NULL.
ParseFail(e) == [ok |-> FALSE, allocated |-> TRUE, freed |-> TRUE, entry |-> e]

ParseOk(e) == [ok |-> TRUE, allocated |-> TRUE, freed |-> FALSE, entry |-> e]

\* entry == NULL after calloc: return NULL.
ParseNoMem(l) ==
    [ok |-> FALSE, allocated |-> FALSE, freed |-> FALSE, entry |-> NewEntry(l)]

\* The steps of sc_parse_mountinfo_entry, in order.  Each takes the entry
\* as the step before left it; failed records that a step took goto fail,
\* after which nothing more is done.

\* The header stored with &entry->dev_minor and &entry->dev_major swapped.
StoreHeader_swapped(e, h) ==
    [e EXCEPT !.mount_id = h.mount_id, !.parent_id = h.parent_id,
              !.dev_major = h.dev_minor, !.dev_minor = h.dev_major,
              !.offset = h.delta, !.failed = h.n # 4]

\* nscanned = sscanf(line, "%d %d %u:%u %n", ...); if (nscanned != 4) goto
\* fail; offset += offset_delta;
StoreHeader(e, h) ==
    [e EXCEPT !.mount_id = h.mount_id, !.parent_id = h.parent_id,
              !.dev_major = h.dev_major, !.dev_minor = h.dev_minor,
              !.offset = h.delta, !.failed = h.n # 4]

ParseHeader(e, l) == StoreHeader(e, ScanHeader(l))

\* if ((entry->name = parse_next_string_field(...)) == NULL) goto fail;
StoreField(s, name) ==
    [s EXCEPT ![name] = s.field, !.failed = s.field = Null]

ParseField(e, l, name) ==
    IF e.failed THEN e ELSE StoreField(parse_next_string_field(e, l), name)

\* entry->optional_fields = &entry->line_buf[0] + offset; then the loop.
EndOptionalFields(s) == [s EXCEPT !.failed = s.field = Null]

ParseOptionalFields(e, l) ==
    IF e.failed THEN e
    ELSE EndOptionalFields(
             parse_optional_fields([e EXCEPT !.optional_fields = e.offset], l, 0))

\* return entry, or the fail label.
ParseResult(e) == IF e.failed THEN ParseFail(e) ELSE ParseOk(e)

\* sc_parse_mountinfo_entry(line); alloc_ok is whether calloc succeeds.
sc_parse_mountinfo_entry(l, alloc_ok) ==
    IF ~alloc_ok THEN ParseNoMem(l)
    ELSE ParseResult(
           ParseField(
             ParseField(
               ParseField(
                 ParseOptionalFields(
                   ParseField(
                     ParseField(
                       ParseField(ParseHeader(NewEntry(l), l), l, "root"),
                       l, "mount_dir"),
                     l, "mount_opts"),
                   l),
                 l, "fs_type"),
               l, "mount_source"),
             l, "super_opts"))

\* The strings a caller reads through the entry's pointers.
Strings(e) ==
    [root |-> CStr(e.line_buf, e.root),
     mount_dir |-> CStr(e.line_buf, e.mount_dir),
     mount_opts |-> CStr(e.line_buf, e.mount_opts),
     optional_fields |-> CStr(e.line_buf, e.optional_fields),
     fs_type |-> CStr(e.line_buf, e.fs_type),
     mount_source |-> CStr(e.line_buf, e.mount_source),
     super_opts |-> CStr(e.line_buf, e.super_opts)]

(***************************************************************************)
(* Input lines.  A line is built from the tokens of the grammar            *)
(*   ID PARENT_ID MAJOR:MINOR ROOT MOUNT_DIR OPTS [OPT_FIELD...] - FS_TYPE *)
(*   SOURCE SUPER_OPTS                                                     *)
(* joined by single spaces, any string field possibly empty, the separator *)
(* possibly missing, then changed by at most one edit (a truncation, or a  *)
(* character substituted, inserted or deleted).                            *)
(***************************************************************************)

MaxOpt == 2

DigitChar(d) ==
    CASE d = 0 -> "0" [] d = 1 -> "1" [] d = 2 -> "2" [] d = 3 -> "3"
      [] d = 4 -> "4" [] d = 5 -> "5" [] d = 6 -> "6" [] d = 7 -> "7"
      [] d = 8 -> "8" [] d = 9 -> "9"

\* printf's %d of n >= 0.
RECURSIVE FmtNat(_)
FmtNat(n) ==
    IF n < 10 THEN <<DigitChar(n)>> ELSE FmtNat(n \div 10) \o <<DigitChar(n % 10)>>

\* printf's %d of the int n.
FmtInt(n) == IF n < 0 THEN <<"-">> \o FmtNat(0 - n) ELSE FmtNat(n)

\* printf's %u of the unsigned whose bits are those of the int n, for
\* n > -867296: 2^32 + n = 4294 * 10^6 + (967296 + n).
FmtUInt(n) ==
    IF n < 0 THEN <<"4", "2", "9", "4">> \o FmtNat(967296 + n) ELSE FmtNat(n)

SP == <<" ">>

TokRoot == <<"/">>
TokDir  == <<"/", "m">>
TokOpts == <<"r", "w">>
TokFs   == <<"f", "s">>
TokSrc  == <<"d", "e", "v">>
TokSup  == <<"r", "o">>
TokSep  == <<"-">>
OptToks == {<<"m", ":", "1">>, <<"-", "s">>}
HdrNums == {<<36, 35, 98, 0>>, <<1, 1, 0, 7>>}
Tails   == {<<>>, <<"\n">>, <<" ">>}
EditChars == {" ", "\t", "\n", "-", ":", "7", "x"}

OptSeqs == UNION {[1 .. k -> OptToks] : k \in 0 .. MaxOpt}

NoEdit == <<"none">>

RECURSIVE JoinOpt(_)
JoinOpt(ts) == IF ts = <<>> THEN <<>> ELSE SP \o Head(ts) \o JoinOpt(Tail(ts))

Header(nums) ==
    FmtNat(nums[1]) \o SP \o FmtNat(nums[2]) \o SP
      \o FmtNat(nums[3]) \o <<":">> \o FmtNat(nums[4])

BaseLine(sh) ==
    Header(sh.nums) \o SP \o sh.root \o SP \o sh.dir \o SP \o sh.opts
      \o JoinOpt(sh.optf) \o (IF sh.sep THEN SP \o TokSep ELSE <<>>)
      \o SP \o sh.fs \o SP \o sh.src \o SP \o sh.sup \o sh.tail

ApplyEdit(l, ed) ==
    CASE ed[1] = "none"  -> l
      [] ed[1] = "trunc" -> SubSeq(l, 1, ed[2])
      [] ed[1] = "sub"   -> [l EXCEPT ![ed[2]] = ed[3]]
      [] ed[1] = "ins"   -> SubSeq(l, 1, ed[2]) \o <<ed[3]>>
                              \o SubSeq(l, ed[2] + 1, Len(l))
      [] ed[1] = "del"   -> SubSeq(l, 1, ed[2] - 1)
                              \o SubSeq(l, ed[2] + 1, Len(l))

LineOf(sh) == ApplyEdit(BaseLine(sh), sh.edit)

\* Lines of the grammar, any string field possibly empty, with or without
\* the separator.
GrammarShapes ==
    [nums : HdrNums, root : {<<>>, TokRoot}, dir : {<<>>, TokDir},
     opts : {<<>>, TokOpts}, optf : OptSeqs, sep : BOOLEAN,
     fs : {<<>>, TokFs}, src : {<<>>, TokSrc}, sup : {<<>>, TokSup},
     tail : Tails, edit : {NoEdit}]

BaseShapes ==
    [nums : {<<36, 35, 98, 0>>}, root : {TokRoot}, dir : {TokDir},
     opts : {TokOpts}, optf : {<<>>, <<<<"m", ":", "1">>, <<"-", "s">>>>},
     sep : {TRUE}, fs : {TokFs}, src : {TokSrc}, sup : {TokSup},
     tail : {<<>>}, edit : {NoEdit}]

Edits(l) ==
    {<<"trunc", n>> : n \in 0 .. Len(l) - 1}
      \cup {<<"del", i>> : i \in 1 .. Len(l)}
      \cup {<<"sub", i, c>> : i \in 1 .. Len(l), c \in EditChars}
      \cup {<<"ins", i, c>> : i \in 0 .. Len(l), c \in EditChars}

EditedShapes ==
    UNION {{[b EXCEPT !.edit = ed] : ed \in Edits(BaseLine(b))} : b \in BaseShapes}

Shapes == GrammarShapes \cup EditedShapes

NoResult == ParseNoMem(<<>>)

\* The table side, not in use.
TableIdle ==
    /\ source = <<>> /\ readErr = FALSE /\ pc = "idle" /\ pos = 0
    /\ allocated = {} /\ frees = <<>> /\ first = Null /\ next = <<>>
    /\ last = Null /\ entries = <<>> /\ file = "null" /\ ret = Null
    /\ ref = Null /\ cur = Null /\ visited = <<>> /\ walk = "idle"
    /\ cleanups = 0

\* The single-line side, not in use.
EntryIdle ==
    /\ shape = <<>> /\ line = <<>> /\ res = NoResult /\ epc = "idle"

\* The dm-verity side, not in use.
HashIdle ==
    /\ outShape = <<>> /\ output = <<>> /\ hpc = "idle" /\ rest = <<>>
    /\ rootHash = <<>> /\ result = [kind |-> "none", val |-> <<>>]

InitEntry ==
    /\ shape \in Shapes
    /\ line = LineOf(shape)
    /\ res = NoResult
    /\ epc = "input"
    /\ TableIdle
    /\ HashIdle

\* A caller hands the line to sc_parse_mountinfo_entry.
ParseEntry ==
    /\ epc = "input"
    /\ \E alloc_ok \in BOOLEAN : res' = sc_parse_mountinfo_entry(line, alloc_ok)
    /\ epc' = "parsed"
    /\ UNCHANGED <<shape, line, tvars, hvars>>

NextEntry == ParseEntry

SpecEntry == InitEntry /\ [][NextEntry]_vars

(***************************************************************************)
(* Properties of sc_parse_mountinfo_entry, checked under SpecEntry.        *)
(***************************************************************************)

\* The call has returned and its calloc had succeeded.
Parsed == epc = "parsed" /\ res.allocated

StringFields ==
    {"root", "mount_dir", "mount_opts", "fs_type", "mount_source", "super_opts"}

\* The token the line was built with at the grammar position of a field.
TokenAt(sh, f) ==
    CASE f = "root" -> sh.root [] f = "mount_dir" -> sh.dir
      [] f = "mount_opts" -> sh.opts [] f = "fs_type" -> sh.fs
      [] f = "mount_source" -> sh.src [] f = "super_opts" -> sh.sup

\* The optional-field tokens joined by single spaces.
JoinTokens(ts) == IF ts = <<>> THEN <<>> ELSE Tail(JoinOpt(ts))

\* A line of the grammar: every field a non-empty token, single spaces, the
\* separator present, nothing after super_opts but an optional newline.
WellFormed(sh) ==
    /\ sh.edit = NoEdit
    /\ sh.sep
    /\ \A f \in StringFields : TokenAt(sh, f) # <<>>
    /\ sh.tail \in {<<>>, <<"\n">>}

\* A line of the grammar in which exactly the field f is textually empty:
\* its position is immediately followed by a space (for super_opts, the
\* last field, that space ends the line).
OnlyEmpty(sh, f) ==
    /\ sh.edit = NoEdit
    /\ sh.sep
    /\ \A g \in StringFields : (TokenAt(sh, g) = <<>>) <=> (g = f)
    /\ IF f = "super_opts" THEN sh.tail = <<" ">> ELSE sh.tail \in {<<>>, <<"\n">>}

\* Every string field of the returned entry is the token at its position.
FieldsMatch(sh, e) ==
    /\ \A f \in StringFields : Strings(e)[f] = TokenAt(sh, f)
    /\ Strings(e).optional_fields = JoinTokens(sh.optf)

NumbersMatch(sh, e) ==
    /\ e.mount_id = sh.nums[1]
    /\ e.parent_id = sh.nums[2]
    /\ e.dev_major = sh.nums[3]
    /\ e.dev_minor = sh.nums[4]

\* C4: for a well-formed line of the grammar, sc_parse_mountinfo_entry
\* returns an entry whose four numeric fields and seven string fields are
\* exactly the tokens of the line (optional_fields being the optional-field
\* tokens joined by single spaces).
C4_WellFormedFieldsMatch ==
    (Parsed /\ WellFormed(shape)) =>
        /\ res.ok
        /\ NumbersMatch(shape, res.entry)
        /\ FieldsMatch(shape, res.entry)

C4_Witness ==
    /\ Parsed /\ WellFormed(shape) /\ res.ok
    /\ Len(shape.optf) = 2 /\ shape.tail = <<"\n">>
    /\ res.entry.mount_id = 36 /\ Strings(res.entry).super_opts = TokSup

\* C5 (as claimed): for each of root, mount_dir, mount_opts, fs_type,
\* mount_source and super_opts, a line in which only that field is empty
\* parses, the field is the zero-length string and every other field is the
\* token at its own position.
C5_EmptyFieldAnyPosition ==
    \A f \in StringFields :
        (Parsed /\ OnlyEmpty(shape, f)) =>
            /\ res.ok
            /\ Strings(res.entry)[f] = <<>>
            /\ NumbersMatch(shape, res.entry)
            /\ FieldsMatch(shape, res.entry)

\* What does hold of the empty-field rule: it works for every string field
\* but root, whose leading space the header's trailing whitespace directive
\* consumes.
EmptyFieldButRoot ==
    \A f \in StringFields \ {"root"} :
        (Parsed /\ OnlyEmpty(shape, f)) =>
            /\ res.ok
            /\ Strings(res.entry)[f] = <<>>
            /\ NumbersMatch(shape, res.entry)
            /\ FieldsMatch(shape, res.entry)

\* C7: for a well-formed line with k >= 0 optional-field tokens, the entry's
\* optional_fields is non-null and is those tokens joined by exactly one
\* space, without leading or trailing space and without the separator; for
\* k = 0 it is the zero-length string and the parse succeeds.
C7_OptionalFieldsJoined ==
    (Parsed /\ WellFormed(shape)) =>
        /\ res.ok
        /\ res.entry.optional_fields # Null
        /\ Strings(res.entry).optional_fields = JoinTokens(shape.optf)
        /\ (shape.optf = <<>>) => (Strings(res.entry).optional_fields = <<>>)

C7_Witness ==
    /\ Parsed /\ WellFormed(shape) /\ res.ok
    /\ shape.optf = <<<<"-", "s">>, <<"m", ":", "1">>>>
    /\ Strings(res.entry).optional_fields = <<"-", "s", " ", "m", ":", "1">>

\* The whitespace-separated tokens of a string.
RECURSIVE Tokens(_, _)
Tokens(l, i) ==
    LET s == SkipWs(l, i)
        e == TokEnd(l, s)
    IN  IF LineAt(l, s) = NUL THEN <<>>
        ELSE <<SubSeq(l, s + 1, e)>> \o Tokens(l, e)

\* Runs of spaces collapsed to one space.
RECURSIVE CollapseSpaces(_)
CollapseSpaces(l) ==
    IF Len(l) < 2 THEN l
    ELSE IF l[1] = " " /\ l[2] = " " THEN CollapseSpaces(Tail(l))
    ELSE <<l[1]>> \o CollapseSpaces(Tail(l))

StripNewline(l) ==
    IF l # <<>> /\ l[Len(l)] = "\n" THEN SubSeq(l, 1, Len(l) - 1) ELSE l

\* "{mount_id} {parent_id} {dev_major}:{dev_minor} " followed by root,
\* mount_dir, mount_opts, optional_fields, "-", fs_type, mount_source and
\* super_opts joined by single spaces.
Rejoin(e) ==
    LET t == Strings(e)
    IN  FmtInt(e.mount_id) \o SP \o FmtInt(e.parent_id) \o SP
          \o FmtUInt(e.dev_major) \o <<":">> \o FmtUInt(e.dev_minor) \o SP
          \o t.root \o SP \o t.mount_dir \o SP \o t.mount_opts \o SP
          \o t.optional_fields \o SP \o TokSep \o SP
          \o t.fs_type \o SP \o t.mount_source \o SP \o t.super_opts

\* C8 (as claimed): every line that parses re-joins to a string equivalent
\* to the line, read as loosely as the claim allows: the same tokens in the
\* same order, whitespace aside.
C8_RoundTripEveryParsedLine ==
    (Parsed /\ res.ok) => Tokens(Rejoin(res.entry), 0) = Tokens(line, 0)

\* C8 (amended): a well-formed line of the grammar parses and re-joins to
\* the line itself without its newline, up to the one extra space the join
\* puts around an empty optional_fields.
C8_RoundTripWellFormed ==
    (Parsed /\ WellFormed(shape)) =>
        /\ res.ok
        /\ CollapseSpaces(Rejoin(res.entry)) = StripNewline(line)

C8_Witness ==
    /\ Parsed /\ WellFormed(shape) /\ res.ok
    /\ Len(shape.optf) = 1 /\ shape.tail = <<"\n">>
    /\ Rejoin(res.entry) = StripNewline(line)

\* The bytes of line_buf a string field occupies, its terminator included.
FieldRange(e, p) == p .. p + Len(CStr(e.line_buf, p))

FieldPointers(e) ==
    <<e.root, e.mount_dir, e.mount_opts, e.optional_fields, e.fs_type,
      e.mount_source, e.super_opts>>

\* Every store went to an index 0 .. strlen(line) of line_buf.
WritesInBounds == Parsed => res.entry.writes \subseteq 0 .. Len(line)

\* C10 (as claimed): for every input line, every byte written to line_buf
\* lies at an index 0 .. L, and the seven string fields of a returned entry
\* occupy pairwise disjoint byte ranges of line_buf.
C10_WritesInBoundsFieldsDisjoint ==
    /\ WritesInBounds
    /\ (Parsed /\ res.ok) =>
           \A i, j \in 1 .. 7 :
               i < j => FieldRange(res.entry, FieldPointers(res.entry)[i])
                          \cap FieldRange(res.entry, FieldPointers(res.entry)[j])
                          = {}

(***************************************************************************)
(* sc_parse_mountinfo, the iteration interface and sc_cleanup_mountinfo.   *)
(* Record 0 is the sc_mountinfo; record i is the entry allocated for the   *)
(* i-th line of the source.                                                *)
(***************************************************************************)

MaxLines == 3
MaxCleanups == 2

Info == 0

\* The lines a source is made of: two lines of the grammar, two lines
\* without the separator, a line cut short.
TableShapes ==
    LET good == [nums |-> <<36, 35, 98, 0>>, root |-> TokRoot, dir |-> TokDir,
                 opts |-> TokOpts, optf |-> <<<<"m", ":", "1">>>>, sep |-> TRUE,
                 fs |-> TokFs, src |-> TokSrc, sup |-> TokSup,
                 tail |-> <<"\n">>, edit |-> NoEdit]
    IN  {good,
         [good EXCEPT !.nums = <<1, 1, 0, 7>>, !.optf = <<>>],
         [good EXCEPT !.sep = FALSE, !.optf = <<<<"m", ":", "1">>, <<"-", "s">>>>],
         [good EXCEPT !.sep = FALSE, !.optf = <<>>, !.opts = TokSep],
         [good EXCEPT !.edit = <<"trunc", 20>>]}

TableLines == {LineOf(sh) : sh \in TableShapes}

\* The lines of the grammar but for the separator: no token after
\* mount_opts is "-".
NoSepLines == {LineOf(sh) : sh \in {t \in TableShapes : ~t.sep}}

Sources == UNION {[1 .. n -> TableLines] : n \in 0 .. MaxLines}

\* The entries from fst on, following next.
RECURSIVE Chain(_, _)
Chain(fst, nx) == IF fst = Null THEN <<>> ELSE <<fst>> \o Chain(nx[fst], nx)

\* free(p)
Free(fr, p) == [fr EXCEPT ![p] = @ + 1]

\* sc_free_mountinfo_entry(entry)
sc_free_mountinfo_entry(fr, entry) == Free(fr, entry)

RECURSIVE FreeEntries(_, _, _)
FreeEntries(fr, entry, nx) ==
    IF entry = Null THEN fr
    ELSE FreeEntries(sc_free_mountinfo_entry(fr, entry), nx[entry], nx)

\* sc_free_mountinfo freeing the table record alone, the entries leaked.
sc_free_mountinfo_leak(fr, fst, nx) == Free(fr, Info)

\* sc_free_mountinfo(info): the free counts afterwards.
sc_free_mountinfo(fr, fst, nx) == Free(FreeEntries(fr, fst, nx), Info)

\* sc_cleanup_mountinfo without *ptr = NULL.
sc_cleanup_mountinfo_noclear(ptr, fr, fst, nx) ==
    IF ptr # Null
    THEN [ptr |-> ptr, frees |-> sc_free_mountinfo(fr, fst, nx)]
    ELSE [ptr |-> ptr, frees |-> fr]

\* sc_cleanup_mountinfo(&ptr): the pointer and the free counts afterwards.
sc_cleanup_mountinfo(ptr, fr, fst, nx) ==
    IF ptr # Null
    THEN [ptr |-> Null, frees |-> sc_free_mountinfo(fr, fst, nx)]
    ELSE [ptr |-> ptr, frees |-> fr]

\* The link step without the test of last: info->first = entry, always.
LinkEntry_first(fst, nx, lst, entry) == [first |-> entry, next |-> nx]

\* if (last != NULL) last->next = entry; else info->first = entry;
LinkEntry(fst, nx, lst, entry) ==
    IF lst # Null
    THEN [first |-> fst, next |-> [nx EXCEPT ![lst] = entry]]
    ELSE [first |-> entry, next |-> nx]

sc_first_mountinfo_entry(fst) == fst

sc_next_mountinfo_entry(nx, entry) == nx[entry]

Init ==
    /\ source \in Sources
    /\ readErr \in BOOLEAN
    /\ pc = "start"
    /\ pos = 0
    /\ allocated = {}
    /\ frees = [r \in 0 .. MaxLines |-> 0]
    /\ first = Null
    /\ next = [r \in 1 .. MaxLines |-> Null]
    /\ last = Null
    /\ entries = [r \in 1 .. MaxLines |-> NewEntry(<<>>)]
    /\ file = "null"
    /\ ret = Null
    /\ ref = Null
    /\ cur = Null
    /\ visited = <<>>
    /\ walk = "idle"
    /\ cleanups = 0
    /\ EntryIdle
    /\ HashIdle

CallerVars == <<cur, visited, walk, cleanups>>

\* sc_parse_mountinfo returns v to the caller, which keeps it in ref; the
\* cleanup attribute closes f if it was opened.
Return(v) ==
    /\ pc' = "returned"
    /\ ret' = v
    /\ ref' = v
    /\ file' = IF file = "open" THEN "closed" ELSE file

\* sc_parse_mountinfo up to the loop: calloc of the table, fopen.
ParseStart ==
    /\ pc = "start"
    /\ \E info_ok, open_ok \in BOOLEAN :
          IF ~info_ok
          THEN /\ Return(Null)
               /\ UNCHANGED <<allocated, frees>>
          ELSE IF ~open_ok
          THEN /\ allocated' = allocated \cup {Info}
               /\ frees' = Free(frees, Info)
               /\ Return(Null)
          ELSE /\ allocated' = allocated \cup {Info}
               /\ file' = "open"
               /\ pc' = "loop"
               /\ UNCHANGED <<frees, ret, ref>>
    /\ UNCHANGED <<source, readErr, pos, first, next, last, entries,
                   CallerVars, evars,
                   hvars>>

\* getline reports the end of the source: an error or the end of the file.
ParseEnd ==
    /\ pc = "loop"
    /\ pos = Len(source)
    /\ IF readErr
       THEN /\ frees' = sc_free_mountinfo(frees, first, next)
            /\ Return(Null)
       ELSE /\ Return(Info)
            /\ UNCHANGED frees
    /\ UNCHANGED <<source, readErr, pos, allocated, first, next, last,
                   entries, CallerVars, evars,
                   hvars>>

\* One iteration of the loop on a line: parse it, then fail or link it.
ParseLine ==
    /\ pc = "loop"
    /\ pos < Len(source)
    /\ \E alloc_ok \in BOOLEAN :
          LET entry == pos + 1
              r == sc_parse_mountinfo_entry(source[entry], alloc_ok)
              fr == IF r.freed THEN Free(frees, entry) ELSE frees
              lk == LinkEntry(first, next, last, entry)
          IN  /\ allocated' = IF r.allocated THEN allocated \cup {entry}
                              ELSE allocated
              /\ IF ~r.ok
                 THEN /\ frees' = sc_free_mountinfo(fr, first, next)
                      /\ Return(Null)
                      /\ UNCHANGED <<pos, first, next, last, entries>>
                 ELSE /\ frees' = fr
                      /\ first' = lk.first
                      /\ next' = lk.next
                      /\ last' = entry
                      /\ entries' = [entries EXCEPT ![entry] = r.entry]
                      /\ pos' = pos + 1
                      /\ UNCHANGED <<pc, ret, ref, file>>
    /\ UNCHANGED <<source, readErr, CallerVars, evars,
                   hvars>>

\* The caller starts a walk: sc_first_mountinfo_entry(ref).
WalkFirst ==
    /\ pc = "returned" /\ ref # Null /\ walk = "idle"
    /\ cur' = sc_first_mountinfo_entry(first)
    /\ visited' = IF cur' = Null THEN <<>> ELSE <<cur'>>
    /\ walk' = IF cur' = Null THEN "done" ELSE "walking"
    /\ UNCHANGED <<source, readErr, pc, pos, allocated, frees, first, next,
                   last, entries, file, ret, ref, cleanups, evars, hvars>>

\* The caller steps the walk: sc_next_mountinfo_entry(cur).
WalkNext ==
    /\ pc = "returned" /\ ref # Null /\ walk = "walking"
    /\ cur' = sc_next_mountinfo_entry(next, cur)
    /\ visited' = IF cur' = Null THEN visited ELSE Append(visited, cur')
    /\ walk' = IF cur' = Null THEN "done" ELSE "walking"
    /\ UNCHANGED <<source, readErr, pc, pos, allocated, frees, first, next,
                   last, entries, file, ret, ref, cleanups, evars, hvars>>

\* The caller calls sc_cleanup_mountinfo(&ref), any number of times.
Cleanup ==
    /\ pc = "returned" /\ cleanups < MaxCleanups
    /\ LET c == sc_cleanup_mountinfo(ref, frees, first, next)
       IN  /\ ref' = c.ptr
           /\ frees' = c.frees
    /\ cleanups' = cleanups + 1
    /\ UNCHANGED <<source, readErr, pc, pos, allocated, first, next, last,
                   entries, file, ret, cur, visited, walk, evars, hvars>>

Next == ParseStart \/ ParseEnd \/ ParseLine \/ WalkFirst \/ WalkNext \/ Cleanup

Spec == Init /\ [][Next]_vars

(***************************************************************************)
(* Properties of sc_parse_mountinfo and its caller, checked under Spec.    *)
(***************************************************************************)

\* sc_parse_mountinfo_entry accepts the line (memory permitting).
ParsesOk(l) == sc_parse_mountinfo_entry(l, TRUE).ok

\* <<1, ..., n>>
UpTo(n) == [i \in 1 .. n |-> i]

\* C1: sc_parse_mountinfo returns a table only if no read failed and every
\* line parsed, and the table then links an entry for every line; at the
\* first malformed line or read error it returns NULL, having read no
\* further, with every record it allocated freed and nothing left for the
\* caller to reach: no table of a prefix of the lines is ever returned.
C1_AllOrNothing ==
    pc = "returned" =>
        /\ ret # Null =>
              /\ ~readErr
              /\ \A i \in 1 .. Len(source) : ParsesOk(source[i])
              /\ Chain(first, next) = UpTo(Len(source))
        /\ ret = Null =>
              /\ ref = Null
              /\ \A r \in allocated : frees[r] = 1
              /\ \A i \in 1 .. pos : ParsesOk(source[i])
              /\ allocated \subseteq 0 .. pos + 1

C1_Witness ==
    /\ pc = "returned" /\ ret = Null /\ Len(source) = 3
    /\ ParsesOk(source[1]) /\ ~ParsesOk(source[2]) /\ ParsesOk(source[3])
    /\ allocated = {0, 1, 2}
    /\ frees[1] = 1 /\ frees[2] = 1 /\ frees[3] = 0

\* C2: after a successful sc_parse_mountinfo on n lines, the walk from
\* sc_first_mountinfo_entry through sc_next_mountinfo_entry visits exactly n
\* entries, the i-th being the entry parsed from the i-th line, and ends
\* with NULL; a source of no lines gives a non-NULL table whose first entry
\* is NULL.
C2_WalkInSourceOrder ==
    /\ (pc = "returned" /\ ret # Null /\ walk = "walking") =>
          /\ visited = UpTo(Len(visited))
          /\ Len(visited) <= Len(source)
          /\ cur = visited[Len(visited)]
    /\ (pc = "returned" /\ ret # Null /\ walk = "done") =>
          /\ cur = Null
          /\ visited = UpTo(Len(source))
          /\ \A i \in 1 .. Len(source) :
                entries[visited[i]]
                  = sc_parse_mountinfo_entry(source[i], TRUE).entry
    /\ (pc = "returned" /\ file = "closed" /\ source = <<>> /\ ~readErr) =>
          /\ ret # Null
          /\ sc_first_mountinfo_entry(first) = Null

C2_Witness ==
    /\ pc = "returned" /\ ret # Null /\ walk = "done"
    /\ Len(source) = 3 /\ source[1] # source[2]
    /\ visited = <<1, 2, 3>>

\* C3: no record is freed more than once and none is freed that was not
\* allocated; after a failed sc_parse_mountinfo, or once
\* sc_cleanup_mountinfo has been called, every record that was allocated
\* (the record of a line that failed to parse included) has been freed
\* exactly once and the reference is NULL, however many more times
\* sc_cleanup_mountinfo is called.
C3_FreedExactlyOnce ==
    /\ \A r \in DOMAIN frees : frees[r] <= 1
    /\ \A r \in DOMAIN frees : r \notin allocated => frees[r] = 0
    /\ (pc = "returned" /\ (ret = Null \/ cleanups >= 1)) =>
          /\ ref = Null
          /\ \A r \in allocated : frees[r] = 1

C3_Witness ==
    /\ pc = "returned" /\ ret # Null /\ cleanups = 2
    /\ allocated = {0, 1, 2}
    /\ \A r \in allocated : frees[r] = 1

\* C6: a line of the grammar but for its separator (no token after
\* mount_opts is "-") makes sc_parse_mountinfo_entry fail, and with it
\* sc_parse_mountinfo on the whole source, whatever the other lines are.
C6_MissingSeparatorFailsTable ==
    pc = "returned" =>
        \A i \in 1 .. Len(source) :
            source[i] \in NoSepLines => (~ParsesOk(source[i]) /\ ret = Null)

C6_Witness ==
    /\ pc = "returned" /\ ret = Null /\ ~readErr /\ Len(source) = 3
    /\ ParsesOk(source[1]) /\ source[2] \in NoSepLines /\ ParsesOk(source[3])
    /\ allocated = {0, 1, 2} /\ frees[2] = 1

(***************************************************************************)
(* dmverity.Format and getRootHashFromOutput.  The output of veritysetup   *)
(* is a byte string; bufio.Scanner cuts it into lines.                     *)
(***************************************************************************)

MaxOutLines == 2

RootHashKey == <<"R", "o", "o", "t", " ", "h", "a", "s", "h">>

\* The lines an output is made of: lead, key, and after the colon (when
\* there is one) padL, val and padR.  val carries no outer whitespace.
HashLineShapes ==
    LET ln(lead, key, colon, padL, val, padR) ==
            [lead |-> lead, key |-> key, colon |-> colon, padL |-> padL,
             val |-> val, padR |-> padR]
    IN  {ln(<<>>, RootHashKey, TRUE, <<"\t">>, <<"a", "b">>, <<>>),
         ln(<<>>, RootHashKey, TRUE, <<" ">>, <<"c", ":", "d">>, <<" ", "\r">>),
         ln(<<>>, RootHashKey, TRUE, <<" ">>, <<>>, <<>>),
         ln(<<>>, RootHashKey, FALSE, <<>>, <<>>, <<>>),
         ln(<<>>, RootHashKey \o <<"e", "s">>, TRUE, <<>>, <<"e", " ", "f">>, <<>>),
         ln(<<" ">>, RootHashKey, TRUE, <<" ">>, <<"g">>, <<>>),
         ln(<<>>, <<"S", "a", "l", "t">>, TRUE, <<" ">>, <<"h">>, <<>>),
         ln(<<>>, <<>>, FALSE, <<>>, <<>>, <<>>)}

HashLineText(sh) ==
    sh.lead \o sh.key
      \o (IF sh.colon THEN <<":">> \o sh.padL \o sh.val \o sh.padR ELSE <<>>)

OutShapes ==
    [lines : UNION {[1 .. n -> HashLineShapes] : n \in 0 .. MaxOutLines},
     finalNewline : BOOLEAN]

\* The lines, each but the last followed by a newline, the last one too
\* when finalNewline.
RECURSIVE JoinLines(_, _)
JoinLines(ls, finalNewline) ==
    IF ls = <<>> THEN <<>>
    ELSE HashLineText(Head(ls))
           \o (IF Len(ls) > 1 \/ finalNewline THEN <<"\n">> ELSE <<>>)
           \o JoinLines(Tail(ls), finalNewline)

\* The index of the first c in cs, 0 if there is none.
RECURSIVE IndexOf(_, _, _)
IndexOf(cs, c, i) ==
    IF i > Len(cs) THEN 0 ELSE IF cs[i] = c THEN i ELSE IndexOf(cs, c, i + 1)

\* bufio.ScanLines' dropCR.
DropCR(cs) ==
    IF cs # <<>> /\ cs[Len(cs)] = "\r" THEN SubSeq(cs, 1, Len(cs) - 1) ELSE cs

\* scanner.Scan() with bufio.ScanLines on the unconsumed bytes: whether
\* there is a token, the token (scanner.Text()) and the bytes left.
ScanToken(data, nl) ==
    IF data = <<>> THEN [more |-> FALSE, text |-> <<>>, rest |-> <<>>]
    ELSE IF nl = 0 THEN [more |-> TRUE, text |-> DropCR(data), rest |-> <<>>]
    ELSE [more |-> TRUE, text |-> DropCR(SubSeq(data, 1, nl - 1)),
          rest |-> SubSeq(data, nl + 1, Len(data))]

Scan(data) == ScanToken(data, IndexOf(data, "\n", 1))

\* strings.HasPrefix(s, prefix)
HasPrefix(cs, prefix) ==
    Len(cs) >= Len(prefix) /\ SubSeq(cs, 1, Len(prefix)) = prefix

\* unicode.IsSpace over the characters of the model.
GoIsSpace(c) == c \in {" ", "\t", "\n", "\r"}

\* strings.TrimSpace(s)
RECURSIVE TrimLeft(_)
TrimLeft(cs) ==
    IF cs # <<>> /\ GoIsSpace(Head(cs)) THEN TrimLeft(Tail(cs)) ELSE cs

RECURSIVE TrimRight(_)
TrimRight(cs) ==
    IF cs # <<>> /\ GoIsSpace(cs[Len(cs)])
    THEN TrimRight(SubSeq(cs, 1, Len(cs) - 1)) ELSE cs

TrimSpace(cs) == TrimRight(TrimLeft(cs))

\* strings.SplitN(s, ":", 2): one or two pieces.
SplitAt(cs, colon) ==
    IF colon = 0 THEN <<cs>>
    ELSE <<SubSeq(cs, 1, colon - 1), SubSeq(cs, colon + 1, Len(cs))>>

SplitN2(cs) == SplitAt(cs, IndexOf(cs, ":", 1))

\* The loop body keeping the first root hash found.
ScanBody_first(rh, text) ==
    IF HasPrefix(text, RootHashKey) /\ rh = <<>>
    THEN IF Len(SplitN2(text)) < 2 THEN [panic |-> TRUE, rootHash |-> rh]
         ELSE [panic |-> FALSE, rootHash |-> TrimSpace(SplitN2(text)[2])]
    ELSE [panic |-> FALSE, rootHash |-> rh]

\* The body of the loop in getRootHashFromOutput on one line: rootHash
\* afterwards, or a panic when SplitN(...)[1] indexes out of range.
ScanBody(rh, text) ==
    IF HasPrefix(text, RootHashKey)
    THEN IF Len(SplitN2(text)) < 2 THEN [panic |-> TRUE, rootHash |-> rh]
         ELSE [panic |-> FALSE, rootHash |-> TrimSpace(SplitN2(text)[2])]
    ELSE [panic |-> FALSE, rootHash |-> rh]

\* The end of getRootHashFromOutput, scanner.Err() being nil, and of
\* Format: the error "empty root hash", or &Info{RootHash: rootHash}.
RootHashResult(rh) ==
    IF Len(rh) = 0 THEN [kind |-> "empty_error", val |-> <<>>]
    ELSE [kind |-> "info", val |-> rh]

InitHash ==
    /\ outShape \in OutShapes
    /\ output = JoinLines(outShape.lines, outShape.finalNewline)
    /\ hpc = "start"
    /\ rest = <<>>
    /\ rootHash = <<>>
    /\ result = [kind |-> "none", val |-> <<>>]
    /\ EntryIdle
    /\ TableIdle

\* Format runs veritysetup; on success it hands the combined output to
\* getRootHashFromOutput.
Format ==
    /\ hpc = "start"
    /\ \E cmd_ok \in BOOLEAN :
          IF cmd_ok
          THEN /\ hpc' = "scan"
               /\ rest' = output
               /\ UNCHANGED result
          ELSE /\ hpc' = "done"
               /\ result' = [kind |-> "cmd_error", val |-> <<>>]
               /\ UNCHANGED rest
    /\ UNCHANGED <<outShape, output, rootHash, evars, tvars>>

\* One iteration of for scanner.Scan().
ScanLine ==
    /\ hpc = "scan"
    /\ Scan(rest).more
    /\ LET b == ScanBody(rootHash, Scan(rest).text)
       IN  IF b.panic
           THEN /\ hpc' = "done"
                /\ result' = [kind |-> "panic", val |-> <<>>]
                /\ UNCHANGED <<rest, rootHash>>
           ELSE /\ rootHash' = b.rootHash
                /\ rest' = Scan(rest).rest
                /\ UNCHANGED <<hpc, result>>
    /\ UNCHANGED <<outShape, output, evars, tvars>>

\* scanner.Scan() returns false: the checks after the loop, and Format's
\* return.
ScanEnd ==
    /\ hpc = "scan"
    /\ ~Scan(rest).more
    /\ hpc' = "done"
    /\ result' = RootHashResult(rootHash)
    /\ UNCHANGED <<outShape, output, rest, rootHash, evars, tvars>>

NextHash == Format \/ ScanLine \/ ScanEnd

SpecHash == InitHash /\ [][NextHash]_vars

(***************************************************************************)
(* Properties of getRootHashFromOutput, checked under SpecHash.            *)
(***************************************************************************)

\* The line begins with "Root hash", by construction.
Keyed(sh) == sh.lead = <<>> /\ HasPrefix(sh.key, RootHashKey)

KeyedLines(ls) == {i \in 1 .. Len(ls) : Keyed(ls[i])}

Min(S) == CHOOSE x \in S : \A y \in S : x <= y
Max(S) == CHOOSE x \in S : \A y \in S : x >= y

\* The command succeeded and getRootHashFromOutput is over.
HashReturned == hpc = "done" /\ result.kind # "cmd_error"

\* C9 (as claimed), on the outputs whose "Root hash" lines all hold a
\* colon: the result is the trimmed text after the colon of the first line
\* that begins with "Root hash"; it is an error when there is no such line
\* or when that text is empty.
C9_FirstRootHashLine ==
    HashReturned =>
        LET ls == outShape.lines
            K  == KeyedLines(ls)
        IN  IF \E i \in K : ~ls[i].colon THEN TRUE
            ELSE IF K = {} \/ ls[Min(K)].val = <<>>
            THEN result.kind = "empty_error"
            ELSE result = [kind |-> "info", val |-> ls[Min(K)].val]

\* C9 (amended): the result is the trimmed text after the first colon of
\* the last line that begins with "Root hash"; it is an error when there is
\* no such line or when that text is empty; and a line that begins with
\* "Root hash" but holds no colon makes the function panic.
C9_LastRootHashLine ==
    HashReturned =>
        LET ls == outShape.lines
            K  == KeyedLines(ls)
        IN  IF \E i \in K : ~ls[i].colon THEN result.kind = "panic"
            ELSE IF K = {} \/ ls[Max(K)].val = <<>>
            THEN result.kind = "empty_error"
            ELSE result = [kind |-> "info", val |-> ls[Max(K)].val]

C9_Witness ==
    /\ HashReturned
    /\ LET ls == outShape.lines
           K  == KeyedLines(ls)
       IN  /\ Cardinality(K) >= 2
           /\ ls[Min(K)].val # <<>>
           /\ ls[Min(K)].val # ls[Max(K)].val
           /\ result = [kind |-> "info", val |-> ls[Max(K)].val]

====
